---- MODULE Spec2Model ----
(***************************************************************************)
(* serde_ext_duration: a Duration codec.  A field bound to one of the      *)
(* modes {root, human, secs, millis, secs_f64_ms} (plain or `opt`) is      *)
(* serialized to a value node and value nodes are deserialized back to a   *)
(* Duration.  The model follows src/src/lib.rs function by function.       *)
(*                                                                         *)
(* Number widths.  TLC's integers are 32 bit, so the machine widths are    *)
(* scaled: U64_MAX stands for u64::MAX and U128_MAX for u128::MAX.  What   *)
(* the code relies on is kept: U64_MAX < U128_MAX, and the millisecond     *)
(* total of every Duration (at most U64_MAX * 1000 + 1000) fits u128; the  *)
(* Durations the model writes therefore keep their total below U128_MAX.   *)
(* Every checked operation is written so that no intermediate value leaves *)
(* TLC's range.  The unit factors (86_400_000 ...) and the rounding        *)
(* constants keep their real values.                                       *)
(*                                                                         *)
(* Text.  A string is a sequence of one-character strings; numbers are     *)
(* written and read digit by digit.                                        *)
(*                                                                         *)
(* f64.  A float is a sign, a whole part and a fraction in 1/FRAC_DEN      *)
(* (exact fixed point).  What is kept of binary floating point is what     *)
(* the code's casts depend on: u64::MAX is no f64 (`u64::MAX as f64` is    *)
(* u64::MAX + 1), floats at and above that have no fractional part, and    *)
(* `f64 as u64` saturates.                                                 *)
(***************************************************************************)
EXTENDS Integers, Sequences, FiniteSets, TLC

VARIABLES mode, opt, field, node, back, pc, given

vars == <<mode, opt, field, node, back, pc, given>>

\* ------------------------------------------------------------------ widths

\* Stand-in for u64::MAX (2^30 - 1).
U64_MAX == 1073741823

\* Stand-in for u128::MAX.
U128_MAX == 2147483646

\* i64::MAX relative to u64::MAX.
I64_MAX == U64_MAX \div 2

\* Denominator of the fixed-point fraction of an f64 (four decimals).
FRAC_DEN == 10 * 1000

\* Longest raw string fed to parse_str.
MaxLen == 4

\* Most (number, unit) pairs of a generated unit string.
MaxPairs == 2

\* ---------------------------------------------------------------- Duration

\* std::time::Duration: whole seconds and a sub-second part in nanoseconds.
Duration(secs, nanos) == [secs |-> secs, nanos |-> nanos]

from_secs(v) == Duration(v, 0)

from_millis(ms) == Duration(ms \div 1000, (ms % 1000) * 1000000)

as_secs(dur) == dur.secs

subsec_nanos(dur) == dur.nanos

subsec_millis(dur) == dur.nanos \div 1000000

\* Duration::checked_add: None (here NoDuration) when the seconds overflow.
NoDuration == [none |-> TRUE]

checked_add_dur(a, b) ==
  LET n == a.nanos + b.nanos
      carry == IF n >= 1000000000 THEN 1 ELSE 0
  IN  IF b.secs > U64_MAX - a.secs \/ carry > U64_MAX - a.secs - b.secs
        THEN NoDuration
        ELSE Duration(a.secs + b.secs + carry, n - carry * 1000000000)

\* ----------------------------------------------------------------- results

Ok(v) == [is |-> "ok", v |-> v]

Err(msg) == [is |-> "err", msg |-> msg]

\* format!("... at position {p}")
ErrAt(msg, p) == [is |-> "err", msg |-> msg, pos |-> p]

\* format!("unknown unit '{unit}' (use d, h, m, s, ms)")
ErrUnit(unit) == [is |-> "err", msg |-> "unknown unit", unit |-> unit]

NoResult == [is |-> "unset"]

\* Option<Duration>
None == [is |-> "none"]

Some(d) == [is |-> "some", d |-> d]

NoField == [is |-> "unset"]

\* ------------------------------------------------------------- value nodes

StrNode(s) == [t |-> "str", s |-> s]

U64Node(n) == [t |-> "u64", n |-> n]

I64Node(i) == [t |-> "i64", i |-> i]

F64Node(f) == [t |-> "f64", f |-> f]

NullNode == [t |-> "null"]

NoNode == [t |-> "unset"]

\* serde::ser::Error::custom(msg)
SerError(msg) == [t |-> "error", msg |-> msg]

\* A finite f64: (-1)^neg * (whole + frac / FRAC_DEN).
F64(neg, whole, frac) == [fin |-> TRUE, neg |-> neg, whole |-> whole, frac |-> frac]

\* NaN and the infinities.
NonFinite == [fin |-> FALSE, neg |-> FALSE, whole |-> 0, frac |-> 0]

\* ------------------------------------------------------------- text helpers

Digits == <<"0", "1", "2", "3", "4", "5", "6", "7", "8", "9">>

\* u8::is_ascii_digit
is_ascii_digit(b) == \E k \in 1..10 : Digits[k] = b

DigitVal(b) == (CHOOSE k \in 1..10 : Digits[k] = b) - 1

\* u8::is_ascii_whitespace: space, \t, \n, form feed, \r.
is_ascii_whitespace(b) == b \in {" ", "\t", "\n", "\f", "\r"}

LowerCase == <<"d", "h", "m", "s", "q">>

UpperCase == <<"D", "H", "M", "S", "Q">>

\* char::is_ascii_alphabetic, over the letters the model's strings use.
is_alpha(b) == \E k \in 1..Len(LowerCase) : b = LowerCase[k] \/ b = UpperCase[k]

to_ascii_lowercase_char(b) ==
  IF \E k \in 1..Len(UpperCase) : b = UpperCase[k]
    THEN LowerCase[CHOOSE k \in 1..Len(UpperCase) : b = UpperCase[k]]
    ELSE b

to_ascii_lowercase(s) == [k \in 1..Len(s) |-> to_ascii_lowercase_char(s[k])]

\* format!("{n}"): the decimal digits of n, no leading zeros.
RECURSIVE ToDecimal(_)
ToDecimal(n) ==
  IF n < 10 THEN <<Digits[n + 1]>>
  ELSE Append(ToDecimal(n \div 10), Digits[(n % 10) + 1])

\* Vec<String>::join(sep)
RECURSIVE join(_, _)
join(parts, sep) ==
  IF Len(parts) = 0 THEN <<>>
  ELSE IF Len(parts) = 1 THEN parts[1]
  ELSE parts[1] \o sep \o join(Tail(parts), sep)

\* -------------------------------------------------------------- formatters

\* Round to the nearest millisecond: (secs as u128) * 1000 + (nanos + 500_000) / 1_000_000.
rounded_ms_total(dur) ==
  as_secs(dur) * 1000 + ((subsec_nanos(dur) + 500000) \div 1000000)

day == 86400000

hour == 3600000

minute == 60000

second == 1000

\* Mutant: the seconds component is pushed even when it is zero.
human_parts_zero_seconds(ms_total) ==
  LET d == ms_total \div day
      r1 == ms_total % day
      h == r1 \div hour
      r2 == r1 % hour
      m == r2 \div minute
      r3 == r2 % minute
      s == r3 \div second
      ms == r3 % second
  IN  (IF d > 0 THEN <<ToDecimal(d) \o <<"d">>>> ELSE <<>>)
      \o (IF h > 0 THEN <<ToDecimal(h) \o <<"h">>>> ELSE <<>>)
      \o (IF m > 0 THEN <<ToDecimal(m) \o <<"m">>>> ELSE <<>>)
      \o (IF s >= 0 THEN <<ToDecimal(s) \o <<"s">>>> ELSE <<>>)
      \o (IF ms > 0 THEN <<ToDecimal(ms) \o <<"m", "s">>>> ELSE <<>>)

\* The `parts` vector of to_human_string: one entry per non-zero component.
human_parts(ms_total) ==
  LET d == ms_total \div day
      r1 == ms_total % day
      h == r1 \div hour
      r2 == r1 % hour
      m == r2 \div minute
      r3 == r2 % minute
      s == r3 \div second
      ms == r3 % second
  IN  (IF d > 0 THEN <<ToDecimal(d) \o <<"d">>>> ELSE <<>>)
      \o (IF h > 0 THEN <<ToDecimal(h) \o <<"h">>>> ELSE <<>>)
      \o (IF m > 0 THEN <<ToDecimal(m) \o <<"m">>>> ELSE <<>>)
      \o (IF s > 0 THEN <<ToDecimal(s) \o <<"s">>>> ELSE <<>>)
      \o (IF ms > 0 THEN <<ToDecimal(ms) \o <<"m", "s">>>> ELSE <<>>)

to_human_string(dur) ==
  LET ms_total == rounded_ms_total(dur)
  IN  IF ms_total = 0 THEN <<"0", "s">>
      ELSE join(human_parts(ms_total), <<" ">>)

serialize_human(dur) == StrNode(to_human_string(dur))

serialize_secs(dur) == U64Node(as_secs(dur))

\* Mutant: the sub-second part is truncated instead of rounded.
serialize_millis_truncating(dur) ==
  LET ms_total == as_secs(dur) * 1000 + subsec_millis(dur)
  IN  IF ms_total > U64_MAX THEN SerError("duration too large")
      ELSE U64Node(ms_total)

serialize_millis(dur) ==
  LET ms_total == rounded_ms_total(dur)
  IN  IF ms_total > U64_MAX THEN SerError("duration too large")
      ELSE U64Node(ms_total)

\* f = secs + subsec_millis / 1000.0, then (f * 1000.0).round() / 1000.0.
serialize_secs_f64_ms(dur) ==
  LET f_frac == subsec_millis(dur) * (FRAC_DEN \div 1000)
      thousandths == (f_frac * 1000 + FRAC_DEN \div 2) \div FRAC_DEN
  IN  F64Node(F64(FALSE, as_secs(dur) + thousandths \div 1000,
                  (thousandths % 1000) * (FRAC_DEN \div 1000)))

\* Root `serialize` and the per-mode modules' `serialize`.
serialize(md, dur) ==
  CASE md = "root" -> serialize_human(dur)
    [] md = "human" -> serialize_human(dur)
    [] md = "secs" -> serialize_secs(dur)
    [] md = "millis" -> serialize_millis(dur)
    [] md = "secs_f64_ms" -> serialize_secs_f64_ms(dur)

\* Mutant: a zero Duration is written as the absent node.
opt_serialize_zero_as_null(md, v) ==
  IF v = None \/ v = Some(Duration(0, 0)) THEN NullNode ELSE serialize(md, v.d)

\* opt::serialize and opt::<mode>::serialize.
opt_serialize(md, v) ==
  IF v = None THEN NullNode ELSE serialize(md, v.d)

\* ------------------------------------------------------------ deserializer

\* `f64 as u64` of a non-negative whole part: saturates at u64::MAX.
f64_as_u64(whole) == IF whole > U64_MAX THEN U64_MAX ELSE whole

\* `u64 as f64`, for the values visit_f64 converts: exact, except that
\* u64::MAX is no f64 and rounds to u64::MAX + 1.
u64_as_f64(n) == IF n = U64_MAX THEN U64_MAX + 1 ELSE n

\* `i64 as u64`: two's complement reinterpretation.
i64_as_u64(v) == v % (U64_MAX + 1)

\* Mutant: the integer is taken as milliseconds.
visit_u64_as_millis(v) == Ok(from_millis(v))

visit_u64(v) == Ok(from_secs(v))

\* Mutant: no sign check, the cast wraps the negative value.
visit_i64_unchecked(v) == Ok(from_secs(i64_as_u64(v)))

visit_i64(v) ==
  IF v < 0 THEN Err("negative duration not allowed")
  ELSE Ok(from_secs(i64_as_u64(v)))

\* (frac * 1000.0).round() as u64, where frac = v - (secs_trunc as f64) has the
\* whole part frac_whole and the fraction frac_num / FRAC_DEN.  f64::round
\* rounds half away from zero; the cast saturates.
round_millis(frac_whole, frac_num) ==
  IF frac_whole > U64_MAX \div 1000 THEN U64_MAX
  ELSE f64_as_u64(frac_whole * 1000
                  + (frac_num * 1000 + FRAC_DEN \div 2) \div FRAC_DEN)

visit_f64(v) ==
  IF ~v.fin THEN Err("non-finite float")
  ELSE IF v.neg /\ (v.whole > 0 \/ v.frac > 0)
    THEN Err("negative duration not allowed")
  ELSE
    LET secs_trunc == f64_as_u64(v.whole)
        millis0 == round_millis(v.whole - u64_as_f64(secs_trunc), v.frac)
        carry == millis0 = 1000
        millis == IF carry THEN 0 ELSE millis0
    IN  IF carry /\ secs_trunc = U64_MAX THEN Err("duration overflow")
        ELSE
          LET secs == IF carry THEN secs_trunc + 1 ELSE secs_trunc
              sum == checked_add_dur(from_secs(secs), from_millis(millis))
          IN  IF sum = NoDuration THEN Err("duration overflow") ELSE Ok(sum)

\* ---------------------------------------------------------------- parse_str

\* First index at or after i whose byte is no whitespace (Len(s) + 1 if none).
RECURSIVE skip_whitespace(_, _)
skip_whitespace(s, i) ==
  IF i <= Len(s) /\ is_ascii_whitespace(s[i]) THEN skip_whitespace(s, i + 1) ELSE i

RECURSIVE skip_digits(_, _)
skip_digits(s, i) ==
  IF i <= Len(s) /\ is_ascii_digit(s[i]) THEN skip_digits(s, i + 1) ELSE i

RECURSIVE skip_alpha(_, _)
skip_alpha(s, i) ==
  IF i <= Len(s) /\ is_alpha(s[i]) THEN skip_alpha(s, i + 1) ELSE i

\* str::parse::<u128> of a digit run, most significant digit first, given the
\* value acc of the digits read so far: -1 when the value does not fit.
RECURSIVE parse_u128(_, _)
parse_u128(digits, acc) ==
  IF Len(digits) = 0 THEN acc
  ELSE LET dv == DigitVal(Head(digits))
       IN  IF acc > (U128_MAX - dv) \div 10 THEN -1
           ELSE parse_u128(Tail(digits), acc * 10 + dv)

\* The unit table: 0 for an unknown unit.
ms_per_unit(unit) ==
  IF unit = <<"d">> THEN 86400000
  ELSE IF unit = <<"h">> THEN 3600000
  ELSE IF unit = <<"m", "s">> THEN 1
  ELSE IF unit = <<"m">> THEN 60000
  ELSE IF unit = <<"s">> THEN 1000
  ELSE 0

\* u128::checked_mul and u128::checked_add: -1 for None.
checked_mul(a, b) == IF b > 0 /\ a > U128_MAX \div b THEN -1 ELSE a * b

\* Mutant: the running total is overwritten, not accumulated.
checked_add_overwrite(a, b) == b

checked_add(a, b) == IF b > U128_MAX - a THEN -1 ELSE a + b

\* Mutant: the milliseconds below a second are dropped in the conversion.
parse_finish_whole_secs(total_ms, token_count) ==
  IF token_count = 0 THEN Err("empty duration string")
  ELSE IF total_ms > U64_MAX THEN Err("duration too large")
  ELSE Ok(from_secs(total_ms \div 1000))

\* After the loop: the token count and range checks and the conversion.
parse_finish(total_ms, token_count) ==
  IF token_count = 0 THEN Err("empty duration string")
  ELSE IF total_ms > U64_MAX THEN Err("duration too large")
  ELSE Ok(from_millis(total_ms))

\* The `while i < len` loop; i is the 1-based index of byte offset i - 1.
RECURSIVE parse_loop(_, _, _, _)
parse_loop(s, i0, total_ms, token_count) ==
  IF i0 > Len(s) THEN parse_finish(total_ms, token_count)
  ELSE
    LET start_num == skip_whitespace(s, i0)
        end_num == skip_digits(s, start_num)
        start_unit == skip_whitespace(s, end_num)
        end_unit == skip_alpha(s, start_unit)
    IN  IF start_num > Len(s) THEN parse_finish(total_ms, token_count)
        ELSE IF end_num = start_num
          THEN ErrAt("expected number at position", start_num - 1)
        ELSE
          LET n == parse_u128(SubSeq(s, start_num, end_num - 1), 0)
              unit == to_ascii_lowercase(SubSeq(s, start_unit, end_unit - 1))
              inc == checked_mul(n, ms_per_unit(unit))
              sum == checked_add(total_ms, inc)
          IN  IF n = -1 THEN ErrAt("invalid number at position", start_num - 1)
              ELSE IF start_unit = end_unit
                THEN ErrAt("expected unit after number at position", start_num - 1)
              ELSE IF ms_per_unit(unit) = 0 THEN ErrUnit(unit)
              ELSE IF inc = -1 THEN Err("duration overflow")
              ELSE IF sum = -1 THEN Err("duration overflow")
              ELSE parse_loop(s, skip_whitespace(s, end_unit), sum, token_count + 1)

\* Mutant: a string without any pair parses to the zero Duration.
parse_str_empty_is_zero(s) ==
  LET r == parse_loop(s, 1, 0, 0)
  IN  IF r = Err("empty duration string") THEN Ok(from_millis(0)) ELSE r

parse_str(s) == parse_loop(s, 1, 0, 0)

visit_str(s) == parse_str(s)

\* deserializer.deserialize_any(DurVisitor): the visitor method of the node's
\* type; a node DurVisitor has no method for is serde's invalid-type error.
deserialize(n) ==
  CASE n.t = "u64" -> visit_u64(n.n)
    [] n.t = "i64" -> visit_i64(n.i)
    [] n.t = "f64" -> visit_f64(n.f)
    [] n.t = "str" -> visit_str(n.s)
    [] OTHER -> Err("invalid type")

\* opt::deserialize: Option::<De>::deserialize, then unwrap the newtype.
opt_deserialize(n) ==
  IF n.t = "null" THEN Ok(None)
  ELSE LET inner == deserialize(n)
       IN  IF inner.is = "ok" THEN Ok(Some(inner.v)) ELSE inner

\* ------------------------------------------------------------------ inputs

Modes == {"root", "human", "secs", "millis", "secs_f64_ms"}

\* Durations a field may hold: component boundaries of the human format, the
\* edge of the millisecond range, and sub-millisecond remainders around the ties.
SecsInputs ==
  {0, 1, 59, 60, 3600, 86399, 86400, 90061, 1036800,
   U64_MAX \div 1000, U64_MAX \div 1000 + 1, 2 * (U64_MAX \div 1000)}

NanosInputs ==
  {0, 1, 499999, 500000, 1000000, 250000000, 999000000,
   999499999, 999500000, 999999999}

DurationInputs == {Duration(s, n) : s \in SecsInputs, n \in NanosInputs}

U64Inputs == {0, 1, 5, 42, I64_MAX, I64_MAX + 1, U64_MAX}

I64Inputs == {-I64_MAX - 1, -5, -1, 0, 1, 5, I64_MAX}

\* Floats with a fractional part, and the integral floats around u64::MAX + 1
\* (u64::MAX itself is no f64).
F64Inputs ==
  {F64(neg, w, fr) : neg \in BOOLEAN, w \in {0, 1, 59, 1073741},
                     fr \in {0, 1, 4, 5, 2340, 9994, 9995, 9996, 9999}}
  \cup {F64(neg, w, 0) : neg \in BOOLEAN,
                          w \in {U64_MAX - 2047, U64_MAX + 1, U64_MAX + 1000001,
                                 U64_MAX + 2000001}}
  \cup {NonFinite}

SampleStrings ==
  {<<>>, <<" ", " ", "\t", " ">>, <<"5", "q">>, <<"0", "s">>,
   <<"1", "h", " ", "2", "3", "m", " ", "4", "5", "s">>,
   <<"1", "m", "2", "5", "0", "m", "s">>,
   <<"3", "0", "m", " ", "1", "h">>,
   <<"1", "d", " ", "2", "h">>}

DocNodes ==
  {U64Node(n) : n \in U64Inputs} \cup {I64Node(i) : i \in I64Inputs}
  \cup {F64Node(f) : f \in F64Inputs} \cup {StrNode(s) : s \in SampleStrings}
  \cup {NullNode}

NoGiven == [kind |-> "none"]

\* ----------------------------------------------------------- state machine

\* A field bound to a mode, either holding a value to write or about to be
\* read from a document node.
Init ==
  /\ mode \in Modes
  /\ opt \in BOOLEAN
  /\ \/ /\ field \in IF opt THEN {None} \cup {Some(d) : d \in DurationInputs}
                           ELSE DurationInputs
        /\ node = NoNode
     \/ /\ field = NoField
        /\ node \in DocNodes
  /\ back = NoResult
  /\ pc = "start"
  /\ given = NoGiven

\* <mode>::serialize on a plain Duration field.
Serialize ==
  /\ pc = "start" /\ ~opt /\ field # NoField
  /\ node' = serialize(mode, field)
  /\ pc' = "serialized"
  /\ UNCHANGED <<mode, opt, field, back, given>>

\* opt::<mode>::serialize on an Option<Duration> field.
OptSerialize ==
  /\ pc = "start" /\ opt /\ field # NoField
  /\ node' = opt_serialize(mode, field)
  /\ pc' = "serialized"
  /\ UNCHANGED <<mode, opt, field, back, given>>

Readable == node.t \notin {"unset", "error"} /\ back = NoResult

\* <mode>::deserialize: every mode delegates to the root deserialize.
Deserialize ==
  /\ ~opt /\ Readable
  /\ back' = deserialize(node)
  /\ pc' = "deserialized"
  /\ UNCHANGED <<mode, opt, field, node, given>>

\* opt::<mode>::deserialize: every mode delegates to opt::deserialize.
OptDeserialize ==
  /\ opt /\ Readable
  /\ back' = opt_deserialize(node)
  /\ pc' = "deserialized"
  /\ UNCHANGED <<mode, opt, field, node, given>>

Next == Serialize \/ OptSerialize \/ Deserialize \/ OptDeserialize

Spec == Init /\ [][Next]_vars

\* ------------------------------------------------- parse_str on its own

\* Raw strings: every byte sequence up to MaxLen over digits, unit letters in
\* both cases, two kinds of whitespace and a byte that is none of these.
RawAlphabet == {"0", "1", "s", "m", "H", " ", "\t", "-"}

RawStrings == UNION {[1..n -> RawAlphabet] : n \in 0..MaxLen}

\* Unit strings built from (number, unit) pairs.  The numbers reach every
\* outcome of the scaled widths: 25d overflows the multiplication, 24d + 1d
\* the running sum, 24d exceeds the millisecond range, and the ten-digit
\* number does not fit u128.
PairNumbers ==
  {<<"1">>, <<"2", "4">>, <<"2", "5">>,
   <<"9", "9", "9", "9", "9", "9", "9", "9", "9", "9">>}

PairUnits == {<<"d">>, <<"h">>, <<"m">>, <<"s">>, <<"m", "s">>}

Pairs == [num : PairNumbers, unit : PairUnits]

PairSeqs == UNION {[1..n -> Pairs] : n \in 0..MaxPairs}

\* Optional whitespace: between number and unit, and between pairs.
Gaps == {<<>>, <<" ">>}

RECURSIVE Render(_, _, _)
Render(ps, gap_unit, gap_pair) ==
  IF Len(ps) = 0 THEN <<>>
  ELSE ps[1].num \o gap_unit \o ps[1].unit
       \o (IF Len(ps) > 1 THEN gap_pair \o Render(Tail(ps), gap_unit, gap_pair)
            ELSE <<>>)

InitStr ==
  /\ mode = "root"
  /\ opt = FALSE
  /\ field = NoField
  /\ back = NoResult
  /\ pc = "start"
  /\ \/ /\ given = [kind |-> "raw"]
        /\ node \in {StrNode(s) : s \in RawStrings}
     \/ \E ps \in PairSeqs, gu \in Gaps, gp \in Gaps :
          /\ given = [kind |-> "pairs", pairs |-> ps, gap_unit |-> gu, gap_pair |-> gp]
          /\ node = StrNode(Render(ps, gu, gp))

\* parse_str applied to the string.
ParseStr ==
  /\ pc = "start" /\ node.t = "str"
  /\ back' = parse_str(node.s)
  /\ pc' = "parsed"
  /\ UNCHANGED <<mode, opt, field, node, given>>

NextStr == ParseStr

SpecStr == InitStr /\ [][NextStr]_vars

\* ------------------------------------------------------- reading the state

\* The Duration a written field holds (plain, or inside Some).
FieldDur == IF opt THEN field.d ELSE field

HoldsDuration == field # NoField /\ field # None

\* The deserialized value as the binding sees it: d, or Some(d) under opt.
Bound(d) == IF opt THEN Some(d) ELSE d

HumanMode == mode \in {"root", "human"}

WholeMillis(d) == d.nanos % 1000000 = 0

\* The pieces of s between single spaces.
RECURSIVE SplitSpaces(_, _)
SplitSpaces(s, cur) ==
  IF Len(s) = 0 THEN <<cur>>
  ELSE IF Head(s) = " " THEN <<cur>> \o SplitSpaces(Tail(s), <<>>)
  ELSE SplitSpaces(Tail(s), Append(cur, Head(s)))

\* A component is a digit run without leading zero followed by a unit.
CompDigits(c) == SubSeq(c, 1, skip_digits(c, 1) - 1)

CompUnit(c) == SubSeq(c, skip_digits(c, 1), Len(c))

RECURSIVE DecValue(_)
DecValue(ds) ==
  IF Len(ds) = 0 THEN 0
  ELSE DecValue(SubSeq(ds, 1, Len(ds) - 1)) * 10 + DigitVal(ds[Len(ds)])

CompValue(c) == DecValue(CompDigits(c))

HumanUnits == <<<<"d">>, <<"h">>, <<"m">>, <<"s">>, <<"m", "s">>>>

UnitMs == <<86400000, 3600000, 60000, 1000, 1>>

UnitLimit == <<0, 24, 60, 60, 1000>>

IsUnit(u) == \E k \in 1..5 : HumanUnits[k] = u

UnitRank(u) == CHOOSE k \in 1..5 : HumanUnits[k] = u

RECURSIVE SumComps(_)
SumComps(cs) ==
  IF Len(cs) = 0 THEN 0
  ELSE CompValue(Head(cs)) * UnitMs[UnitRank(CompUnit(Head(cs)))] + SumComps(Tail(cs))

WellFormedComp(c) ==
  /\ Len(CompDigits(c)) > 0
  /\ CompDigits(c)[1] # "0"
  /\ IsUnit(CompUnit(c))
  /\ CompValue(c) > 0
  /\ LET k == UnitRank(CompUnit(c))
     IN  UnitLimit[k] = 0 \/ CompValue(c) < UnitLimit[k]

\* The millisecond total a well-formed human string denotes.
HumanTotal(s) == SumComps(SplitSpaces(s, <<>>))

\* ------------------------------------------------------------------ claims

\* C1 as stated: the human round trip returns d for every whole-millisecond
\* Duration, over the full range of seconds a Duration holds.
C1_RoundTripFullRange ==
  (pc = "deserialized" /\ ~opt /\ HumanMode /\ field # NoField /\ WholeMillis(field))
    => back = Ok(field)

\* C1 amended: parse_str(to_human_string(d)) returns exactly d for every
\* whole-millisecond Duration whose millisecond total fits the u64 range, and
\* the "duration too large" error for every larger one.
C1_RoundTripWithinMillisRange ==
  (pc = "deserialized" /\ ~opt /\ HumanMode /\ field # NoField /\ WholeMillis(field))
    => IF rounded_ms_total(field) <= U64_MAX
         THEN back = Ok(field)
         ELSE back = Err("duration too large")

C1_Witness ==
  /\ pc = "deserialized" /\ ~opt /\ mode = "root"
  /\ field = Duration(90061, 250000000)
  /\ node = StrNode(<<"1", "d", " ", "1", "h", " ", "1", "m", " ", "1", "s", " ",
                      "2", "5", "0", "m", "s">>)
  /\ back = Ok(field)

\* C3: the human string is the greedy decomposition of the rounded millisecond
\* total: non-zero components in the order d, h, m, s, ms separated by single
\* spaces, h < 24, m < 60, s < 60, ms < 1000, summing to the total, and the
\* string is "0s" exactly when the total is 0.
C3_HumanDecomposition ==
  (pc = "serialized" /\ HumanMode /\ HoldsDuration)
    => LET total == rounded_ms_total(FieldDur)
           cs == SplitSpaces(node.s, <<>>)
       IN  /\ node.t = "str"
           /\ (node.s = <<"0", "s">>) <=> (total = 0)
           /\ total > 0 =>
                /\ \A k \in 1..Len(cs) : WellFormedComp(cs[k])
                /\ \A k \in 1..(Len(cs) - 1) :
                     UnitRank(CompUnit(cs[k])) < UnitRank(CompUnit(cs[k + 1]))
                /\ SumComps(cs) = total

C3_Witness ==
  /\ pc = "serialized" /\ HumanMode /\ HoldsDuration
  /\ FieldDur = Duration(86399, 999500000)
  /\ node = StrNode(<<"1", "d">>)

\* C4: serialize_millis emits secs * 1000 + r, r the sub-second part rounded to
\* the nearest millisecond with ties up (r = 1000 carries into the seconds),
\* and the too-large error exactly when that total exceeds the u64 range.
C4_MillisRounded ==
  (pc = "serialized" /\ mode = "millis" /\ HoldsDuration)
    => LET d == FieldDur
       IN  \E r \in 0..1000 :
             /\ r * 1000000 <= d.nanos + 500000
             /\ d.nanos + 500000 < (r + 1) * 1000000
             /\ (d.nanos >= 999500000 => r = 1000)
             /\ IF d.secs * 1000 + r > U64_MAX
                  THEN node = SerError("duration too large")
                  ELSE node = U64Node(d.secs * 1000 + r)

C4_Witness ==
  /\ pc = "serialized" /\ mode = "millis" /\ HoldsDuration
  /\ FieldDur = Duration(1, 999500000)
  /\ node = U64Node(2000)

\* The non-negative integer an integer node delivers (-1 for any other node).
NodeInt ==
  IF node.t = "u64" THEN node.n
  ELSE IF node.t = "i64" /\ node.i >= 0 THEN node.i
  ELSE -1

FromDocument == pc = "deserialized" /\ field = NoField

\* C5: a non-negative integer node n, unsigned or signed, deserializes to
\* exactly n whole seconds with no sub-second part, and serialize_secs of that
\* Duration emits n again.
C5_IntegerSeconds ==
  (FromDocument /\ NodeInt >= 0)
    => /\ back = Ok(Bound(Duration(NodeInt, 0)))
       /\ serialize_secs(Duration(NodeInt, 0)) = U64Node(NodeInt)
       /\ serialize("secs", IF opt THEN back.v.d ELSE back.v) = U64Node(NodeInt)

C5_Witness ==
  /\ FromDocument /\ mode = "secs" /\ ~opt
  /\ node = I64Node(I64_MAX)
  /\ back = Ok(Duration(I64_MAX, 0))

NonNegativeFloat ==
  node.t = "f64" /\ node.f.fin /\ ~(node.f.neg /\ (node.f.whole > 0 \/ node.f.frac > 0))

\* C6 as stated: every non-negative finite float f deserializes to trunc(f)
\* seconds plus round(frac(f) * 1000) milliseconds, a rounding to 1000 ms
\* carried into the seconds, so the sub-second part is below 1000 ms.
C6_FloatSeconds ==
  (FromDocument /\ NonNegativeFloat)
    => \E r \in 0..1000 :
         /\ r * FRAC_DEN <= node.f.frac * 1000 + FRAC_DEN \div 2
         /\ node.f.frac * 1000 + FRAC_DEN \div 2 < (r + 1) * FRAC_DEN
         /\ back = Ok(Bound(Duration(node.f.whole + (IF r = 1000 THEN 1 ELSE 0),
                                     (r % 1000) * 1000000)))

\* The part of C6 the code does satisfy: the same statement for the floats
\* whose whole seconds are below u64::MAX.
C6_FloatSecondsBelowMax ==
  (FromDocument /\ NonNegativeFloat /\ node.f.whole < U64_MAX) => C6_FloatSeconds

C6_CarryReached ==
  /\ FromDocument /\ node = F64Node(F64(FALSE, 1, 9996))
  /\ back = Ok(Bound(Duration(2, 0)))

NegativeNumber ==
  \/ node.t = "i64" /\ node.i < 0
  \/ node.t = "f64" /\ node.f.fin /\ node.f.neg /\ (node.f.whole > 0 \/ node.f.frac > 0)

\* C7: a negative signed integer or negative finite float is rejected with
\* "negative duration not allowed" and yields no Duration, in every mode and
\* in the optional variant.
C7_NegativeRejected ==
  (FromDocument /\ NegativeNumber)
    => /\ back = Err("negative duration not allowed")
       /\ back.is # "ok"

C7_Witness ==
  /\ FromDocument /\ opt /\ mode = "millis"
  /\ node = I64Node(-1)
  /\ back = Err("negative duration not allowed")

\* C9: under opt, a null node deserializes to None and a present valid node to
\* Some(d), d what the plain deserializer returns; None is written as the null
\* node and Some(d) through the mode's formatter, so Some(zero) in human mode
\* is written "0s", not null.
C9_PresencePreserved ==
  /\ (opt /\ pc = "deserialized")
       => /\ (node = NullNode) <=> (back = Ok(None))
          /\ node # NullNode =>
               LET plain == deserialize(node)
               IN  IF plain.is = "ok" THEN back = Ok(Some(plain.v)) ELSE back = plain
  /\ (opt /\ pc = "serialized")
       => /\ (field = None) <=> (node = NullNode)
          /\ field # None => node = serialize(mode, field.d)
          /\ (HumanMode /\ field = Some(Duration(0, 0))) => node = StrNode(<<"0", "s">>)

C9_Witness ==
  /\ opt /\ pc = "deserialized" /\ mode = "human"
  /\ field = Some(Duration(0, 0))
  /\ node = StrNode(<<"0", "s">>)
  /\ back = Ok(Some(Duration(0, 0)))

\* C10 as stated: the human string's total, the number millis mode emits and
\* 1000 times the value secs_f64_ms mode emits are the same millisecond count,
\* for every Duration.
C10_FormattersAgree ==
  (pc = "serialized" /\ mode = "secs_f64_ms" /\ HoldsDuration)
    => LET d == FieldDur
           f64_ms == node.f.whole * 1000 + node.f.frac \div (FRAC_DEN \div 1000)
           millis == serialize_millis(d)
       IN  /\ f64_ms = HumanTotal(to_human_string(d))
           /\ millis.t = "u64" => f64_ms = millis.n

\* What does hold: the human string and millis mode agree on the rounded total.
C10_HumanAgreesWithMillis ==
  (pc = "serialized" /\ mode = "millis" /\ HoldsDuration /\ node.t = "u64")
    => node.n = HumanTotal(to_human_string(FieldDur))

\* ---------------------------------------------------- claims on parse_str

Parsed == pc = "parsed"

FromPairs == Parsed /\ given.kind = "pairs"

\* The sequences that reorder ps.
Reorderings(ps) ==
  {[k \in 1..Len(ps) |-> ps[f[k]]] :
     f \in {g \in [1..Len(ps) -> 1..Len(ps)] : \A i, j \in 1..Len(ps) : i # j => g[i] # g[j]}}

\* Whether the digit run is a u128, decided without leaving TLC's range.
RECURSIVE FitsU128(_, _)
FitsU128(ds, acc) ==
  IF Len(ds) = 0 THEN TRUE
  ELSE /\ acc <= (U128_MAX - DigitVal(Head(ds))) \div 10
       /\ FitsU128(Tail(ds), acc * 10 + DigitVal(Head(ds)))

NumbersFit(ps) == \A k \in 1..Len(ps) : FitsU128(ps[k].num, 0)

\* Beyond: a total above U128_MAX.
Beyond == 0 - 1

\* number * ms_per_unit of a pair whose number fits u128.
PairMs(p) ==
  LET n == DecValue(p.num)
      k == UnitMs[UnitRank(p.unit)]
  IN  IF n > U128_MAX \div k THEN Beyond ELSE n * k

\* The sum over all pairs: a function of the multiset.
RECURSIVE PairsMs(_)
PairsMs(ps) ==
  IF Len(ps) = 0 THEN 0
  ELSE LET a == PairMs(Head(ps))
           b == PairsMs(Tail(ps))
       IN  IF a = Beyond \/ b = Beyond THEN Beyond
           ELSE IF a > U128_MAX - b THEN Beyond ELSE a + b

\* The outcome the multiset of pairs determines.
PairsOutcome(ps) ==
  IF Len(ps) = 0 THEN Err("empty duration string")
  ELSE IF PairsMs(ps) = Beyond THEN Err("duration overflow")
  ELSE IF PairsMs(ps) > U64_MAX THEN Err("duration too large")
  ELSE Ok(from_millis(PairsMs(ps)))

\* Every reordering of the pairs, in every spacing, parses to the same outcome.
OrderFree ==
  \A qs \in Reorderings(given.pairs), gu \in Gaps, gp \in Gaps :
    parse_str(Render(qs, gu, gp)) = back

\* C2 as stated: for every string of (number, unit) pairs the outcome of
\* parse_str depends only on the multiset of pairs, and a successful result is
\* the sum of number * ms_per_unit, with or without whitespace.
C2_OrderFree ==
  FromPairs
    => /\ OrderFree
       /\ (back.is = "ok" /\ NumbersFit(given.pairs)) => back = PairsOutcome(given.pairs)

\* C2 amended: the same, for the strings whose numbers each fit u128 (a number
\* that does not is reported by its own byte offset, which moves with it).
C2_OrderFreeWhenNumbersFit ==
  (FromPairs /\ NumbersFit(given.pairs))
    => /\ OrderFree
       /\ back = PairsOutcome(given.pairs)

C2_Witness ==
  /\ FromPairs
  /\ node = StrNode(<<"2", "4", "m", "1", "h">>)
  /\ back = Ok(Duration(5040, 0))

AllWhitespace(s) == \A k \in 1..Len(s) : is_ascii_whitespace(s[k])

\* A digit, then only whitespace, then a letter.
HasPair(s) ==
  \E i, j \in 1..Len(s) :
    /\ i < j /\ is_ascii_digit(s[i]) /\ is_alpha(s[j])
    /\ \A k \in (i + 1)..(j - 1) : is_ascii_whitespace(s[k])

\* C8: parse_str returns "empty duration string" exactly for the empty and the
\* whitespace-only strings; every string it returns a Duration for contains a
\* (number, unit) pair, so no whitespace-only string yields a zero Duration.
C8_EmptyInput ==
  Parsed
    => /\ (back = Err("empty duration string")) <=> AllWhitespace(node.s)
       /\ back.is = "ok" => (HasPair(node.s) /\ ~AllWhitespace(node.s))

C8_Witness ==
  /\ Parsed /\ given.kind = "raw"
  /\ node = StrNode(<<" ", "\t", " ">>)
  /\ back = Err("empty duration string")

\* A number with no unit: a digit run starting at index i (1-based) that the
\* loop reaches at the start of a pair, followed after optional whitespace by
\* the end of the string or by a byte that is no letter.
DanglingNumber(s, i) ==
  /\ is_ascii_digit(s[i])
  /\ i = 1 \/ ~is_ascii_digit(s[i - 1])
  /\ \/ AllWhitespace(SubSeq(s, 1, i - 1))
     \/ parse_str(SubSeq(s, 1, i - 1)).is = "ok"
  /\ LET k == skip_whitespace(s, skip_digits(s, i))
     IN  k > Len(s) \/ ~is_alpha(s[k])

\* C11: a digit run followed, after optional whitespace, by no letter yields
\* the expected-unit error whose position is the byte offset right after the
\* digit run, wherever the offending pair stands in the string.
C11_ExpectedUnitOffset ==
  Parsed
    => \A i \in 1..Len(node.s) :
         DanglingNumber(node.s, i)
           => back = ErrAt("expected unit after number at position",
                           skip_digits(node.s, i) - 1)

\* What the code reports instead: the byte offset of the number's first digit.
C11_ReportsNumberStart ==
  Parsed
    => \A i \in 1..Len(node.s) :
         DanglingNumber(node.s, i)
           => back = ErrAt("expected unit after number at position", i - 1)

C11_DanglingReached ==
  /\ Parsed
  /\ node = StrNode(<<"1", "s", " ", "1">>)
  /\ back = ErrAt("expected unit after number at position", 3)

\* The pairs exceed the representable range: a product or the running sum
\* leaves u128, or the final total leaves the u64 millisecond range.
OutOfRange(ps) ==
  Len(ps) > 0 /\ (PairsMs(ps) = Beyond \/ PairsMs(ps) > U64_MAX)

\* C12: every way a unit string exceeds the representable range is reported as
\* the same error, "duration overflow", and never as a Duration.
C12_OverflowUniform ==
  (FromPairs /\ NumbersFit(given.pairs) /\ OutOfRange(given.pairs))
    => back = Err("duration overflow")

\* What does hold: no out-of-range string yields a Duration; the product and
\* the sum report "duration overflow", the final total "duration too large".
C12_NeverWrapped ==
  (FromPairs /\ NumbersFit(given.pairs) /\ OutOfRange(given.pairs))
    => /\ back.is = "err"
       /\ back = IF PairsMs(given.pairs) = Beyond
                   THEN Err("duration overflow")
                   ELSE Err("duration too large")

C12_ProductOverflowReached ==
  /\ FromPairs
  /\ node = StrNode(<<"2", "5", "d">>)
  /\ back = Err("duration overflow")

C12_SumOverflowReached ==
  /\ FromPairs
  /\ node = StrNode(<<"2", "4", "d", "1", "d">>)
  /\ back = Err("duration overflow")

====
